---- MODULE Spec2Model ----
(***************************************************************************)
(* A model of src/model.py: the hypergraph construction (mix_Hypergraph),  *)
(* the row partitioning (Split_HyperGraph) and the SCHBR module's          *)
(* propagate / predict / regularize / forward / evaluate.                  *)
(*                                                                         *)
(* A scipy matrix is a record [r, c, a]: r rows, c columns and a, the      *)
(* sequence of its r rows, each a sequence of c numbers.  Python indices   *)
(* are 0-based; a[i + 1] is Python's row i.  Numbers are exact integers:   *)
(* floating-point rounding is not modelled.  The features propagate()      *)
(* returns are halves (x / 2); they are kept as their numerators, so a     *)
(* propagated feature is in units of 1/2 and a product of two of them in   *)
(* units of 1/4.                                                           *)
(***************************************************************************)
EXTENDS Integers, Sequences, FiniteSets, TLC

VARIABLES
    pc,               \* "start", "done" or "error": position of the function under study
    H,                \* Split_HyperGraph: the scipy operator it is given
    split_num,        \* Split_HyperGraph: its split_num argument
    H_split,          \* Split_HyperGraph: what it returned
    raw_graph,        \* mix_Hypergraph: <<ui_graph, bi_graph, ub_graph>>
    threshold,        \* mix_Hypergraph: its threshold argument
    mixed,            \* mix_Hypergraph: its locals uu_graph, bb_graph and the returned H
    model,            \* SCHBR: the attributes set by __init__
    call              \* SCHBR: the call in progress: its name, arguments, locals and outcome

vars == <<pc, H, split_num, H_split, raw_graph, threshold, mixed, model, call>>

\* ---------------------------------------------------------------- bounds
MaxN == 9           \* rows of the operator handed to Split_HyperGraph
MaxPat == 2         \* index of the last pattern of the operator handed to Split_HyperGraph
MaxSplit == 5       \* |split_num| handed to Split_HyperGraph
MaxUsers == 2       \* |U| of the relations handed to mix_Hypergraph
MaxBundles == 2     \* |B| of the relations handed to mix_Hypergraph
MaxItems == 2       \* |I| of the relations handed to mix_Hypergraph
MaxVal == 2         \* largest interaction count in ub_graph
MaxCode == 80       \* ub_graph contents: codes 0..MaxCode, see UBGraph
MaxRelPat == 1      \* index of the last ui_graph / bi_graph pattern
MaxSkew == 1        \* how far ui_graph's and bi_graph's row counts are off |U|, |B|
MaxTau == 4         \* largest threshold handed to mix_Hypergraph directly
MaxModelUsers == 2  \* |U| of a constructed model
MaxExtra == 0       \* a constructed model has 1 or DefaultSplitNum..DefaultSplitNum+MaxExtra bundles
MaxOpPat == 2       \* index of the last normalized-operator pattern of a constructed model
MaxTablePat == 1    \* index of the last embedding-table pattern
MaxEmb == 1         \* largest emb_size
MaxHyper == 1       \* index of the last (dp, l2_norm) setting
MaxMask == 1        \* index of the last training-mode dropout mask
MaxBatch == 2       \* rows of a batch
MaxPerUser == 2     \* bundles per row of a batch (every row has that many)
MaxStart == 1       \* first index of a batch

\* ------------------------------------------------------ program constants
DefaultThreshold == 10   \* mix_Hypergraph(raw_graph, threshold=10)
DefaultSplitNum == 16    \* Split_HyperGraph(H, device, split_num=16)

\* ---------------------------------------------------------------- helpers
None == [none |-> TRUE]

\* the outcome of a call: the value it returned, or the exception it raised
Returned(v) == [value |-> v]

Raised(e) == [error |-> e]

IsError(x) == "error" \in DOMAIN x

Min(a, b) == IF a < b THEN a ELSE b

Max(a, b) == IF a > b THEN a ELSE b

\* Python's a // b (floor division), b # 0
FloorDiv(a, b) ==
    IF b > 0 THEN a \div b
    ELSE LET q == (-a) \div (-b) IN q

\* Python's range(n) as the sequence 0, 1, ..., n-1 (empty when n <= 0)
Range(n) == [k \in 1..Max(n, 0) |-> k - 1]

Mat(r, c, a) == [r |-> r, c |-> c, a |-> a]

\* H[lo:hi] on the rows of a scipy matrix, with Python's slice.indices
SliceBound(x, n) == IF x < 0 THEN Max(x + n, 0) ELSE Min(x, n)

RowSlice(M, lo, hi) ==
    LET l == SliceBound(lo, M.r)
        h == SliceBound(hi, M.r)
    IN  IF h <= l THEN Mat(0, M.c, <<>>)
        ELSE Mat(h - l, M.c, SubSeq(M.a, l + 1, h))

\* SparseTensor.from_scipy(M).to(device): the stored (row, col) -> value map
\* of the nonzeros, 0-based, and the sparse sizes
from_scipy(M) ==
    LET nz == {p \in (0..(M.r - 1)) \X (0..(M.c - 1)) : M.a[p[1] + 1][p[2] + 1] # 0}
    IN  [sparse_sizes |-> <<M.r, M.c>>,
         value |-> [p \in nz |-> M.a[p[1] + 1][p[2] + 1]]]

\* the dense rows a SparseTensor stands for
ToDense(G) ==
    [i \in 1..G.sparse_sizes[1] |->
        [j \in 1..G.sparse_sizes[2] |->
            IF <<i - 1, j - 1>> \in DOMAIN G.value THEN G.value[<<i - 1, j - 1>>] ELSE 0]]

RECURSIVE SumSeq(_)
SumSeq(s) == IF s = <<>> THEN 0 ELSE Head(s) + SumSeq(Tail(s))

\* the dot product of two equally long rows
Dot(x, y) == SumSeq([k \in 1..Len(x) |-> x[k] * y[k]])

RECURSIVE SortedSeq(_)
\* the members of a finite set of integers, ascending
SortedSeq(S) ==
    IF S = {} THEN <<>>
    ELSE LET m == CHOOSE x \in S : \A y \in S : x <= y
         IN  <<m>> \o SortedSeq(S \ {m})

RECURSIVE Flatten(_)
\* torch.cat(seq, dim=0) of a sequence of row sequences
Flatten(ss) == IF ss = <<>> THEN <<>> ELSE Head(ss) \o Flatten(Tail(ss))

\* ------------------------------------------------------ Split_HyperGraph
Split_HyperGraph_NoRemainder(H0, P) ==
    IF P = 0 THEN Raised("ZeroDivisionError")
    ELSE LET length == FloorDiv(H0.r, P)
             H_list == [k \in 1..Len(Range(P)) |->
                          LET i == Range(P)[k]
                          IN  RowSlice(H0, length * i, length * (i + 1))]
         IN  Returned([k \in 1..Len(H_list) |-> from_scipy(H_list[k])])

Split_HyperGraph(H0, P) ==
    IF P = 0 THEN Raised("ZeroDivisionError")
    ELSE LET length == FloorDiv(H0.r, P)
             H_list == [k \in 1..Len(Range(P)) |->
                          LET i == Range(P)[k]
                          IN  IF i = P - 1
                              THEN RowSlice(H0, length * i, H0.r)
                              ELSE RowSlice(H0, length * i, length * (i + 1))]
         IN  Returned([k \in 1..Len(H_list) |-> from_scipy(H_list[k])])

\* The operators handed to Split_HyperGraph: N x N, pattern k.  Pattern 0 is
\* the zero operator; pattern k >= 1 has, in row i, the value i + 1 on a
\* band of k columns starting at the diagonal (wrapping around).
OperatorEntry(k, i, j, N) == IF ((j - i) % N) < k THEN i + 1 ELSE 0

Operator(N, k) ==
    Mat(N, N, [i \in 1..N |-> [j \in 1..N |-> OperatorEntry(k, i - 1, j - 1, N)]])

InitSplit ==
    /\ pc = "start"
    /\ \E N \in 0..MaxN, k \in 0..MaxPat : H = Operator(N, k)
    /\ split_num \in (-MaxSplit)..MaxSplit
    /\ H_split = None
    /\ raw_graph = None /\ threshold = 0 /\ mixed = None
    /\ model = None /\ call = None

CallSplit ==
    /\ pc = "start"
    /\ H_split' = Split_HyperGraph(H, split_num)
    /\ pc' = IF IsError(H_split') THEN "error" ELSE "done"
    /\ UNCHANGED <<H, split_num, raw_graph, threshold, mixed, model, call>>

NextSplit == CallSplit

SpecSplit == InitSplit /\ [][NextSplit]_vars

\* --------------------------------------------------------- mix_Hypergraph
\* M.T
Transpose(M) == Mat(M.c, M.r, [j \in 1..M.c |-> [i \in 1..M.r |-> M.a[i][j]]])

\* A @ B for two scipy sparse matrices: a CSR matrix (shape, indptr, indices,
\* data; indptr[i + 1] is Python's indptr[i], and data[r + 1] Python's data[r])
\* that stores entry (i, j) when some k has A[i, k] and B[k, j] both stored.
\* The inputs store their nonzeros only; each row's indices are ascending.
SpGEMM(A, B) ==
    LET idx == [i \in 1..A.r |->
                   SortedSeq({j - 1 : j \in {x \in 1..B.c :
                                  \E k \in 1..A.c : A.a[i][k] # 0 /\ B.a[k][x] # 0}})]
        dat == [i \in 1..A.r |->
                   [n \in 1..Len(idx[i]) |->
                       SumSeq([k \in 1..A.c |-> A.a[i][k] * B.a[k][idx[i][n] + 1]])]]
    IN  [shape |-> <<A.r, B.c>>,
         indptr |-> [i \in 1..(A.r + 1) |-> SumSeq([k \in 1..(i - 1) |-> Len(idx[k])])],
         indices |-> Flatten(idx),
         data |-> Flatten(dat)]

\* the loop
\*     for i in range(n): for r in range(G.indptr[i], G.indptr[i + 1]):
\*         G.data[r] = 1 if G.data[r] >= threshold else 0
Binarize_AtLeast(G, n, tau) ==
    [G EXCEPT !.data =
        [r \in 1..Len(G.data) |->
            IF \E i \in 0..(n - 1) : G.indptr[i + 1] <= r - 1 /\ r - 1 < G.indptr[i + 2]
            THEN (IF G.data[r] >= tau THEN 1 ELSE 0)
            ELSE G.data[r]]]

\* the loop stopping one row early: for i in range(n - 1)
Binarize_SkipLastRow(G, n, tau) ==
    [G EXCEPT !.data =
        [r \in 1..Len(G.data) |->
            IF \E i \in 0..(n - 2) : G.indptr[i + 1] <= r - 1 /\ r - 1 < G.indptr[i + 2]
            THEN (IF G.data[r] > tau THEN 1 ELSE 0)
            ELSE G.data[r]]]

\* the loop
\*     for i in range(n): for r in range(G.indptr[i], G.indptr[i + 1]):
\*         G.data[r] = 1 if G.data[r] > threshold else 0
\* (n is never more than G's row count, so indptr[i + 1] exists)
Binarize(G, n, tau) ==
    [G EXCEPT !.data =
        [r \in 1..Len(G.data) |->
            IF \E i \in 0..(n - 1) : G.indptr[i + 1] <= r - 1 /\ r - 1 < G.indptr[i + 2]
            THEN (IF G.data[r] > tau THEN 1 ELSE 0)
            ELSE G.data[r]]]

\* the value a CSR matrix holds at (i, j), 0-based: its stored datum, or 0
CsrAt(G, i, j) ==
    LET rs == {r \in (G.indptr[i + 1] + 1)..G.indptr[i + 2] : G.indices[r] = j}
    IN  IF rs = {} THEN 0 ELSE G.data[CHOOSE r \in rs : TRUE]

\* is (i, j) a stored entry of the CSR matrix G
CsrStored(G, i, j) ==
    \E r \in (G.indptr[i + 1] + 1)..G.indptr[i + 2] : G.indices[r] = j

CsrToMat(G) ==
    Mat(G.shape[1], G.shape[2],
        [i \in 1..G.shape[1] |-> [j \in 1..G.shape[2] |-> CsrAt(G, i - 1, j - 1)]])

\* sp.vstack((A, B)) and sp.hstack((A, B))
vstack(A, B) ==
    IF A.c # B.c THEN Raised("ValueError")
    ELSE Returned(Mat(A.r + B.r, A.c, A.a \o B.a))

hstack(A, B) ==
    IF A.r # B.r THEN Raised("ValueError")
    ELSE Returned(Mat(A.r, A.c + B.c, [i \in 1..A.r |-> A.a[i] \o B.a[i]]))

\* H_ub with its two column groups exchanged
BoundBlock_Swapped(uu, ub_graph, bb) ==
    LET left == vstack(uu, Transpose(ub_graph))
        right == vstack(ub_graph, bb)
    IN  IF IsError(left) THEN left
        ELSE IF IsError(right) THEN right
        ELSE hstack(right.value, left.value)

\* line 43: sp.hstack((sp.vstack((uu, ub.T)), sp.vstack((ub, bb))))
BoundBlock(uu, ub_graph, bb) ==
    LET left == vstack(uu, Transpose(ub_graph))
        right == vstack(ub_graph, bb)
    IN  IF IsError(left) THEN left
        ELSE IF IsError(right) THEN right
        ELSE hstack(left.value, right.value)

\* mix_Hypergraph(raw_graph, threshold): its locals uu_graph and bb_graph and
\* its outcome, the returned H or the exception of the first stack that fails
mix_Hypergraph(rg, tau) ==
    LET ui_graph == rg[1]
        bi_graph == rg[2]
        ub_graph == rg[3]
        uu_graph == Binarize(SpGEMM(ub_graph, Transpose(ub_graph)), ub_graph.r, tau)
        bb_graph == Binarize(SpGEMM(Transpose(ub_graph), ub_graph), ub_graph.c, tau)
        H_i == vstack(ui_graph, bi_graph)
        H_ub == BoundBlock(CsrToMat(uu_graph), ub_graph, CsrToMat(bb_graph))
    IN  [uu_graph |-> uu_graph,
         bb_graph |-> bb_graph,
         result |-> IF IsError(H_i) THEN H_i
                    ELSE IF IsError(H_ub) THEN H_ub
                    ELSE hstack(H_i.value, H_ub.value)]

\* The relations handed to mix_Hypergraph.  ub_graph is U x B with contents
\* code q: entry (i, j) is digit i * B + j of q written in base MaxVal + 1.
\* ui_graph and bi_graph follow pattern p.
UBGraph(U, B, q) ==
    LET digit(n) == (q \div ((MaxVal + 1) ^ n)) % (MaxVal + 1)
    IN  Mat(U, B, [i \in 1..U |-> [j \in 1..B |-> digit((i - 1) * B + (j - 1))]])

UIGraph(rows, I, p) == Mat(rows, I, [i \in 1..rows |-> [j \in 1..I |-> (i + j + p) % 2]])

BIGraph(rows, I, p) == Mat(rows, I, [i \in 1..rows |-> [j \in 1..I |-> (i * j + p) % 3]])

\* the codes that give distinct U x B matrices
UBCodes(U, B) == 0..Min(MaxCode, (MaxVal + 1) ^ (U * B) - 1)

\* the scenario of the specification: ub_graph = [[2, 0], [0, 20]]
ScenarioGraph ==
    <<Mat(2, 2, <<<<1, 0>>, <<0, 1>>>>),
      Mat(2, 2, <<<<1, 1>>, <<0, 0>>>>),
      Mat(2, 2, <<<<2, 0>>, <<0, 20>>>>)>>

\* relations whose shapes agree, with every ub_graph code
ConsistentGraphs ==
    UNION {{<<UIGraph(U, I, p), BIGraph(B, I, p), UBGraph(U, B, q)>> :
               I \in 1..MaxItems, p \in 0..MaxRelPat, q \in UBCodes(U, B)} :
           U \in 1..MaxUsers, B \in 1..MaxBundles}

\* relations whose row counts are off |U| and |B| by up to MaxSkew and whose
\* column counts need not agree
SkewedGraphs ==
    {<<UIGraph(Max(1, d[1] + d[3]), d[5], 0),
       BIGraph(Max(1, d[2] + d[4]), d[6], 0),
       UBGraph(d[1], d[2], MaxVal)>> :
        d \in (1..MaxUsers) \X (1..MaxBundles) \X ((-MaxSkew)..MaxSkew)
              \X ((-MaxSkew)..MaxSkew) \X (1..MaxItems) \X (1..MaxItems)}

InitMix ==
    /\ pc = "start"
    /\ raw_graph \in ConsistentGraphs \cup SkewedGraphs \cup {ScenarioGraph}
    /\ threshold = DefaultThreshold
    /\ mixed = None
    /\ H = None /\ split_num = DefaultSplitNum /\ H_split = None
    /\ model = None /\ call = None

\* a direct call mix_Hypergraph(raw_graph, tau)
CallMix ==
    /\ pc = "start"
    /\ \E tau \in ((-1)..MaxTau) \cup {DefaultThreshold} :
          /\ threshold' = tau
          /\ mixed' = mix_Hypergraph(raw_graph, tau)
    /\ pc' = IF IsError(mixed'.result) THEN "error" ELSE "done"
    /\ UNCHANGED <<H, split_num, H_split, raw_graph, model, call>>

\* ------------------------------------------------------------------ SCHBR
\* normalize_HyperGraph(H) = D_v @ H @ D_e @ H.T @ D_v is N x N for N = H's
\* row count and stores (i, j) where row i and row j of H share a column.
\* The scaling by D_v and D_e (positive reals 1 / (sqrt(degree) + 1e-8)) is
\* not computed: the entry kept is the unscaled sum over e of H[i,e] * H[j,e].
normalize_HyperGraph(Hm) ==
    Mat(Hm.r, Hm.r, [i \in 1..Hm.r |-> [j \in 1..Hm.r |-> Dot(Hm.a[i], Hm.a[j])]])

\* torch.FloatTensor(rows, d).normal_(...): the values are random; pattern t
\* gives entry (i, c), 0-based, a value in {-1, 0, 1}
TableEntry(t, i, c) == ((i * (t + 1) + c + t) % 3) - 1

Table(rows, d, t) == [i \in 1..rows |-> [c \in 1..d |-> TableEntry(t, i - 1, c - 1)]]

\* lines 54-72 of __init__ once H is normalized: the attributes of the module.
\* drop is nn.Dropout(dp) for dp = 1 - 1 / (h + 1), kept as its scale
\* 1 / (1 - dp) = h + 1; embed_L2_norm is h + 1.
Construct(U, B, I, op, t, d, h) ==
    LET split == Split_HyperGraph(op, DefaultSplitNum)
    IN  IF IsError(split) THEN split
        ELSE Returned([num_users |-> U, num_bundles |-> B, num_items |-> I,
                       atom_graph |-> split.value,
                       users_feature |-> Table(U, d, t),
                       bundles_feature |-> Table(B, d, t + 1),
                       user_bound |-> Table(d, 1, t + 2),
                       drop |-> h + 1,
                       embed_L2_norm |-> h + 1])

\* SCHBR.__init__(raw_graph, device, dp, l2_norm, emb_size)
SCHBR_init(rg, t, d, h) ==
    LET Hm == mix_Hypergraph(rg, DefaultThreshold).result
    IN  IF IsError(Hm) THEN Hm
        ELSE Construct(rg[3].r, rg[3].c, rg[1].c, normalize_HyperGraph(Hm.value), t, d, h)

\* SCHBR(raw_graph, device, dp, l2_norm, emb_size) on the relations of this
\* specification, with dp = 0, l2_norm = 1 and emb_size = MaxEmb
CallInit ==
    /\ pc = "start"
    /\ LET res == SCHBR_init(raw_graph, 0, MaxEmb, 0)
       IN  /\ pc' = IF IsError(res) THEN "error" ELSE "constructed"
           /\ model' = IF IsError(res) THEN res ELSE res.value
    /\ UNCHANGED <<H, split_num, H_split, raw_graph, threshold, mixed, call>>

NextMix == CallMix \/ CallInit

SpecMix == InitMix /\ [][NextMix]_vars

\* G @ X for a SparseTensor G and dense rows X
spmm(G, X) ==
    [i \in 1..G.sparse_sizes[1] |->
        [c \in 1..Len(X[1]) |->
            SumSeq([j \in 1..G.sparse_sizes[2] |->
                       IF <<i - 1, j - 1>> \in DOMAIN G.value
                       THEN G.value[<<i - 1, j - 1>>] * X[j][c] ELSE 0])]]

\* nn.Dropout: the identity in evaluation mode; in training mode an element
\* is zeroed or multiplied by scale = 1 / (1 - dp).  The random mask is
\* pattern ch.mask: mask 0 keeps everything, mask m >= 1 zeroes the elements
\* whose row + column is a multiple of m + 1.
Keep(m, i, c) == m = 0 \/ ((i + c) % (m + 1)) # 0

Dropout(X, ch, scale) ==
    IF ~ch.training THEN X
    ELSE [i \in 1..Len(X) |->
             [c \in 1..Len(X[i]) |-> IF Keep(ch.mask, i - 1, c - 1) THEN scale * X[i][c] ELSE 0]]

EvalMode == [training |-> FALSE, mask |-> 0]

DropChoices == {EvalMode} \cup {[training |-> TRUE, mask |-> m] : m \in 0..MaxMask}

RECURSIVE Reverse(_)
Reverse(ss) == IF ss = <<>> THEN <<>> ELSE Reverse(Tail(ss)) \o <<Head(ss)>>

\* propagate() with the per-block products concatenated in reverse order
propagate_ReversedBlocks(m, ch) ==
    LET embed_0 == m.users_feature \o m.bundles_feature
        embed_1 == Flatten(Reverse([k \in 1..Len(m.atom_graph) |-> spmm(m.atom_graph[k], embed_0)]))
        dropped == Dropout(embed_1, ch, m.drop)
    IN  IF Len(embed_1) # Len(embed_0) \/ Len(embed_0) # m.num_users + m.num_bundles
        THEN Raised("RuntimeError")
        ELSE LET all_embeds == [i \in 1..Len(embed_0) |->
                                   [c \in 1..Len(embed_0[i]) |-> embed_0[i][c] + dropped[i][c]]]
             IN  Returned([embed_1 |-> embed_1,
                           users_feature |-> SubSeq(all_embeds, 1, m.num_users),
                           bundles_feature |-> SubSeq(all_embeds, m.num_users + 1,
                                                       m.num_users + m.num_bundles)])

\* SCHBR.propagate(): the features it returns, as numerators over 2, and its
\* local embed_1.  embed_0 / 2 + drop(embed_1) / 2 needs equally many rows and
\* torch.split needs num_users + num_bundles of them.
propagate(m, ch) ==
    LET embed_0 == m.users_feature \o m.bundles_feature
        embed_1 == Flatten([k \in 1..Len(m.atom_graph) |-> spmm(m.atom_graph[k], embed_0)])
        dropped == Dropout(embed_1, ch, m.drop)
    IN  IF Len(embed_1) # Len(embed_0) \/ Len(embed_0) # m.num_users + m.num_bundles
        THEN Raised("RuntimeError")
        ELSE LET all_embeds == [i \in 1..Len(embed_0) |->
                                   [c \in 1..Len(embed_0[i]) |-> embed_0[i][c] + dropped[i][c]]]
             IN  Returned([embed_1 |-> embed_1,
                           users_feature |-> SubSeq(all_embeds, 1, m.num_users),
                           bundles_feature |-> SubSeq(all_embeds, m.num_users + 1,
                                                       m.num_users + m.num_bundles)])

\* SCHBR.predict(users_feature, bundles_feature) on two (b, t, d) tensors:
\* torch.sum(users_feature * bundles_feature, 2)
predict(users_feature, bundles_feature) ==
    [k \in 1..Len(users_feature) |->
        [x \in 1..Len(users_feature[k]) |-> Dot(users_feature[k][x], bundles_feature[k][x])]]

\* the sum of the squares of the entries of a sequence of rows
SumSquares(X) == SumSeq([i \in 1..Len(X) |-> Dot(X[i], X[i])])

\* SCHBR.regularize(users_feature, bundles_feature) on two sequences of rows
regularize(m, users_feature, bundles_feature) ==
    m.embed_L2_norm * (SumSquares(users_feature) + SumSquares(bundles_feature))

\* SCHBR.forward(users, bundles): users is (b, 1), bundles is (b, t), both
\* of 0-based indices in range
forward(m, ch, users, bundles) ==
    LET pr == propagate(m, ch)
    IN  IF IsError(pr) THEN pr
        ELSE LET users_feature == pr.value.users_feature
                 bundles_feature == pr.value.bundles_feature
                 users_embedding ==
                     [k \in 1..Len(users) |->
                         [x \in 1..Len(bundles[k]) |-> users_feature[users[k][1] + 1]]]
                 bundles_embedding ==
                     [k \in 1..Len(bundles) |->
                         [x \in 1..Len(bundles[k]) |-> bundles_feature[bundles[k][x] + 1]]]
             IN  Returned([pred |-> predict(users_embedding, bundles_embedding),
                           user_score_bound |->
                               [k \in 1..Len(users) |->
                                   <<<<Dot(users_feature[users[k][1] + 1],
                                           [c \in 1..Len(m.user_bound) |-> m.user_bound[c][1]])>>>>],
                           loss |-> regularize(m, users_feature, bundles_feature)])

\* SCHBR.evaluate(propagate_result, users) scoring the gathered users against
\* the bundles of the same indices only
evaluate_GatheredBundles(pr, users) ==
    LET users_feature == [k \in 1..Len(users) |-> pr.users_feature[users[k] + 1]]
        bundles_feature == [k \in 1..Len(users) |->
                               pr.bundles_feature[(users[k] % Len(pr.bundles_feature)) + 1]]
    IN  [k \in 1..Len(users_feature) |->
            [j \in 1..Len(bundles_feature) |-> Dot(users_feature[k], bundles_feature[j])]]

\* SCHBR.evaluate(propagate_result, users): users is a sequence of 0-based
\* indices in range; users_feature[users] @ bundles_feature.T
evaluate(pr, users) ==
    LET users_feature == [k \in 1..Len(users) |-> pr.users_feature[users[k] + 1]]
        bundles_T == [c \in 1..Len(pr.bundles_feature[1]) |->
                         [j \in 1..Len(pr.bundles_feature) |-> pr.bundles_feature[j][c]]]
    IN  [k \in 1..Len(users_feature) |->
            [j \in 1..Len(bundles_T[1]) |->
                SumSeq([c \in 1..Len(bundles_T) |-> users_feature[k][c] * bundles_T[c][j]])]]

\* the batches handed to forward: b rows of one user index and t bundle indices
Batch(b, t, s, U, B) ==
    [users |-> [k \in 1..b |-> <<(s + k - 1) % U>>],
     bundles |-> [k \in 1..b |-> [x \in 1..t |-> (s + 2 * (k - 1) + (x - 1)) % B]]]

Batches(m) ==
    {Batch(b, MaxPerUser, s, m.num_users, m.num_bundles) : b \in 1..MaxBatch, s \in 0..MaxStart}

\* the user batches handed to evaluate
UserBatches(m) ==
    {[k \in 1..b |-> (s + k - 1) % m.num_users] : b \in 1..MaxBatch, s \in 0..MaxStart}

\* the numbers of bundles of a constructed model
BundleCounts == {1} \cup (DefaultSplitNum..(DefaultSplitNum + MaxExtra))

\* the state after construction: the attributes of a SCHBR whose normalized
\* operator is H, in no call
Init ==
    /\ pc = "constructed"
    /\ \E U \in 1..MaxModelUsers, B \in BundleCounts, k \in 0..MaxOpPat,
          t \in 0..MaxTablePat, d \in 1..MaxEmb, h \in 0..MaxHyper :
          /\ H = Operator(U + B, k)
          /\ model = Construct(U, B, MaxItems, H, t, d, h).value
    /\ split_num = DefaultSplitNum
    /\ threshold = DefaultThreshold
    /\ H_split = None /\ raw_graph = None /\ mixed = None
    /\ call = None

\* propagate() writing the features it computed back into the parameters
CallPropagate_InPlace ==
    /\ call = None
    /\ \E ch \in DropChoices :
          /\ call' = [name |-> "propagate", drop |-> ch, outcome |-> propagate(model, ch)]
          /\ model' = [model EXCEPT !.users_feature = call'.outcome.value.users_feature,
                                    !.bundles_feature = call'.outcome.value.bundles_feature]
    /\ UNCHANGED <<pc, H, split_num, H_split, raw_graph, threshold, mixed>>

CallPropagate ==
    /\ call = None
    /\ \E ch \in DropChoices :
          call' = [name |-> "propagate", drop |-> ch, outcome |-> propagate(model, ch)]
    /\ UNCHANGED <<pc, H, split_num, H_split, raw_graph, threshold, mixed, model>>

\* predict on the embeddings forward gathers from an evaluation-mode
\* propagate() result
CallPredict ==
    /\ call = None
    /\ \E batch \in Batches(model) :
          LET pr == propagate(model, EvalMode).value
              users_embedding ==
                  [k \in 1..Len(batch.users) |->
                      [x \in 1..Len(batch.bundles[k]) |-> pr.users_feature[batch.users[k][1] + 1]]]
              bundles_embedding ==
                  [k \in 1..Len(batch.bundles) |->
                      [x \in 1..Len(batch.bundles[k]) |-> pr.bundles_feature[batch.bundles[k][x] + 1]]]
          IN  call' = [name |-> "predict",
                       users_feature |-> users_embedding,
                       bundles_feature |-> bundles_embedding,
                       outcome |-> Returned(predict(users_embedding, bundles_embedding))]
    /\ UNCHANGED <<pc, H, split_num, H_split, raw_graph, threshold, mixed, model>>

\* regularize on an evaluation-mode propagate() result
CallRegularize ==
    /\ call = None
    /\ LET pr == propagate(model, EvalMode).value
       IN  call' = [name |-> "regularize",
                       users_feature |-> pr.users_feature,
                       bundles_feature |-> pr.bundles_feature,
                       outcome |-> Returned(regularize(model, pr.users_feature, pr.bundles_feature))]
    /\ UNCHANGED <<pc, H, split_num, H_split, raw_graph, threshold, mixed, model>>

CallForward ==
    /\ call = None
    /\ \E ch \in DropChoices, batch \in Batches(model) :
          call' = [name |-> "forward", drop |-> ch,
                   users |-> batch.users, bundles |-> batch.bundles,
                   outcome |-> forward(model, ch, batch.users, batch.bundles)]
    /\ UNCHANGED <<pc, H, split_num, H_split, raw_graph, threshold, mixed, model>>

\* evaluate on an evaluation-mode propagate() result of the model
CallEvaluate ==
    /\ call = None
    /\ \E users \in UserBatches(model) :
          LET pr == propagate(model, EvalMode).value
          IN  call' = [name |-> "evaluate",
                       propagate_result |-> pr,
                       users |-> users,
                       outcome |-> Returned(evaluate(pr, users))]
    /\ UNCHANGED <<pc, H, split_num, H_split, raw_graph, threshold, mixed, model>>

\* the caller takes the outcome; the module is between calls again
Return ==
    /\ call # None
    /\ call' = None
    /\ UNCHANGED <<pc, H, split_num, H_split, raw_graph, threshold, mixed, model>>

\* between calls the external optimizer replaces the three parameters
OptimizerStep ==
    /\ call = None
    /\ \E t \in 0..MaxTablePat :
          LET d == Len(model.user_bound)
              next == [model EXCEPT !.users_feature = Table(model.num_users, d, t),
                                    !.bundles_feature = Table(model.num_bundles, d, t + 1),
                                    !.user_bound = Table(d, 1, t + 2)]
          IN  /\ next # model
              /\ model' = next
    /\ UNCHANGED <<pc, H, split_num, H_split, raw_graph, threshold, mixed, call>>

Next ==
    \/ CallPropagate
    \/ CallPredict
    \/ CallRegularize
    \/ CallForward
    \/ CallEvaluate
    \/ Return
    \/ OptimizerStep

Spec == Init /\ [][Next]_vars

\* ------------------------------------------------- claims: Split_HyperGraph
\* the number of rows of the blocks before block k (1-based) of a block sequence
RowsBefore(blocks, k) == SumSeq([n \in 1..(k - 1) |-> blocks[n].sparse_sizes[1]])

\* C1: for N >= 0 rows and P >= 1 partitions Split_HyperGraph returns exactly
\* P blocks; block i starts at row i * (N // P), blocks before the last hold
\* N // P rows and the last one the rows up to N, each block holds exactly
\* the operator's rows of its range, and the blocks concatenated in order are
\* the operator, row for row.
C1_SplitPartitionsRows ==
    (pc # "start" /\ split_num >= 1) =>
        /\ pc = "done"
        /\ LET blocks == H_split.value
               N == H.r
               P == split_num
               length == N \div P
           IN  /\ Len(blocks) = P
               /\ \A k \in 1..P :
                     LET lo == RowsBefore(blocks, k)
                         hi == lo + blocks[k].sparse_sizes[1]
                     IN  /\ lo = (k - 1) * length
                         /\ hi = IF k = P THEN N ELSE k * length
                         /\ blocks[k].sparse_sizes[2] = H.c
                         /\ ToDense(blocks[k]) = SubSeq(H.a, lo + 1, hi)
               /\ Flatten([k \in 1..P |-> ToDense(blocks[k])]) = H.a

\* a split with a remainder: more rows than partitions, not a multiple
C1_Witness ==
    /\ pc = "done"
    /\ split_num >= 2
    /\ H.r > split_num
    /\ H.r % split_num # 0
    /\ H.a[H.r][H.r] # 0

\* C7: a partition count <= 0 makes Split_HyperGraph end with an error; it
\* never returns a block sequence.
C7_NonPositiveSplitFails ==
    (pc # "start" /\ split_num <= 0) => (pc = "error" /\ IsError(H_split))

\* --------------------------------------------------- claims: mix_Hypergraph
\* the raw co-occurrence counts, 0-based: users i and j, bundles i and j
UserCount(i, j) == Dot(raw_graph[3].a[i + 1], raw_graph[3].a[j + 1])

BundleCount(i, j) ==
    SumSeq([u \in 1..raw_graph[3].r |-> raw_graph[3].a[u][i + 1] * raw_graph[3].a[u][j + 1]])

\* the row, 0-based, that position r (1-based) of G.data belongs to
RowOf(G, r) == CHOOSE i \in 0..(G.shape[1] - 1) : G.indptr[i + 1] < r /\ r <= G.indptr[i + 2]

MixReturnedOrFailed == pc \in {"done", "error"} /\ model = None

\* C3: every stored entry of the user-similarity and of the
\* bundle-similarity relation is 1 when its raw co-occurrence count is
\* strictly greater than the threshold and 0 otherwise; with a threshold at
\* or above every count both relations are all zero and shape-consistent
\* relations raise no error; for ub_graph = [[2, 0], [0, 20]] and threshold
\* 10 the bundle-similarity entry (1, 1) is 1 and the entry (0, 0) is 0.
C3_SimilarityIsThresholdedCount ==
    MixReturnedOrFailed =>
        LET uu == mixed.uu_graph
            bb == mixed.bb_graph
            ub == raw_graph[3]
        IN  /\ \A r \in 1..Len(uu.data) :
                  uu.data[r] = IF UserCount(RowOf(uu, r), uu.indices[r]) > threshold
                               THEN 1 ELSE 0
            /\ \A r \in 1..Len(bb.data) :
                  bb.data[r] = IF BundleCount(RowOf(bb, r), bb.indices[r]) > threshold
                               THEN 1 ELSE 0
            /\ ((\A i, j \in 0..(ub.r - 1) : UserCount(i, j) <= threshold)
                    => \A i, j \in 0..(ub.r - 1) : CsrAt(uu, i, j) = 0)
            /\ ((\A i, j \in 0..(ub.c - 1) : BundleCount(i, j) <= threshold)
                    => \A i, j \in 0..(ub.c - 1) : CsrAt(bb, i, j) = 0)
            /\ ((raw_graph = ScenarioGraph /\ threshold = 10) =>
                    /\ pc = "done"
                    /\ CsrStored(bb, 1, 1) /\ CsrAt(bb, 1, 1) = 1
                    /\ CsrStored(bb, 0, 0) /\ CsrAt(bb, 0, 0) = 0)

\* a count equal to the threshold is stored as 0 beside a count above it stored as 1
C3_Witness ==
    /\ pc = "done" /\ model = None
    /\ \E r \in 1..Len(mixed.uu_graph.data) :
          /\ UserCount(RowOf(mixed.uu_graph, r), mixed.uu_graph.indices[r]) = threshold
          /\ mixed.uu_graph.data[r] = 0
    /\ \E r \in 1..Len(mixed.bb_graph.data) : mixed.bb_graph.data[r] = 1

\* do the three relations agree on |U|, |B| and |I|
ShapesAgree(rg) == rg[1].r = rg[3].r /\ rg[2].r = rg[3].c /\ rg[1].c = rg[2].c

\* C4: for relations that agree on |U|, |B| and |I|, the H mix_Hypergraph
\* returns has |U| + |B| rows and |I| + |U| + |B| columns; user row u holds
\* UserItem[u, :], UserSim[u, :], UserBundle[u, :] and bundle row |U| + b holds
\* BundleItem[b, :], UserBundle^T[b, :], BundleSim[b, :], in the column ranges
\* [0, |I|), [|I|, |I| + |U|), [|I| + |U|, |I| + |U| + |B|).
C4_IncidenceLayout ==
    (MixReturnedOrFailed /\ ShapesAgree(raw_graph)) =>
        /\ pc = "done"
        /\ LET Hm == mixed.result.value
               ui == raw_graph[1]
               bi == raw_graph[2]
               ub == raw_graph[3]
               U == ub.r
               B == ub.c
               I == ui.c
           IN  /\ Hm.r = U + B
               /\ Hm.c = I + U + B
               /\ Len(Hm.a) = U + B
               /\ \A u \in 1..U :
                     /\ Len(Hm.a[u]) = I + U + B
                     /\ \A e \in 1..I : Hm.a[u][e] = ui.a[u][e]
                     /\ \A v \in 1..U : Hm.a[u][I + v] = CsrAt(mixed.uu_graph, u - 1, v - 1)
                     /\ \A b \in 1..B : Hm.a[u][I + U + b] = ub.a[u][b]
               /\ \A b \in 1..B :
                     /\ Len(Hm.a[U + b]) = I + U + B
                     /\ \A e \in 1..I : Hm.a[U + b][e] = bi.a[b][e]
                     /\ \A v \in 1..U : Hm.a[U + b][I + v] = ub.a[v][b]
                     /\ \A c \in 1..B : Hm.a[U + b][I + U + c] = CsrAt(mixed.bb_graph, b - 1, c - 1)

\* an H built from two users and one bundle whose blocks differ
C4_Witness ==
    /\ pc = "done" /\ model = None /\ ShapesAgree(raw_graph)
    /\ raw_graph[3].r = 2 /\ raw_graph[3].c = 1
    /\ raw_graph[3].a[1][1] = 2 /\ raw_graph[3].a[2][1] = 0
    /\ threshold = 1
    /\ mixed.result.value.r = 3

\* C6: relations that disagree on a shared dimension make construction fail;
\* neither mix_Hypergraph nor SCHBR.__init__ returns.
C6_MismatchFails ==
    (pc # "start" /\ ~ShapesAgree(raw_graph)) => pc = "error"

\* C8: after thresholding, the user-similarity and the bundle-similarity
\* relations are symmetric.
C8_SimilaritySymmetric ==
    MixReturnedOrFailed =>
        /\ \A i, j \in 0..(raw_graph[3].r - 1) :
              CsrAt(mixed.uu_graph, i, j) = CsrAt(mixed.uu_graph, j, i)
        /\ \A i, j \in 0..(raw_graph[3].c - 1) :
              CsrAt(mixed.bb_graph, i, j) = CsrAt(mixed.bb_graph, j, i)

\* two different users similar to each other, and two others (or bundles) not
C8_Witness ==
    /\ pc = "done" /\ model = None
    /\ raw_graph[3].r >= 2 /\ raw_graph[3].c >= 2
    /\ CsrAt(mixed.uu_graph, 0, 1) = 1
    /\ CsrStored(mixed.bb_graph, 0, 1) /\ CsrAt(mixed.bb_graph, 0, 1) = 0

\* ------------------------------------------------------------ claims: SCHBR
InCall(name) == call # None /\ call.name = name

\* the full normalized operator applied to X
ApplyOperator(Hm, X) ==
    [i \in 1..Hm.r |->
        [c \in 1..Len(X[1]) |-> SumSeq([j \in 1..Hm.c |-> Hm.a[i][j] * X[j][c]])]]

\* C2: in propagate() the per-block products, concatenated in partition
\* order, are the full normalized operator applied to embed_0; row i of the
\* returned UserFeature is 0.5 * embed_0[i] + 0.5 * dropout(embed_1)[i] and row
\* j of BundleFeature the same for row |U| + j: no row is permuted, dropped or
\* duplicated.  (Features are numerators over 2.)
C2_PropagateKeepsRowOrder ==
    InCall("propagate") =>
        /\ ~IsError(call.outcome)
        /\ LET res == call.outcome.value
               U == model.num_users
               B == model.num_bundles
               embed_0 == model.users_feature \o model.bundles_feature
               full == ApplyOperator(H, embed_0)
               dropped == Dropout(full, call.drop, model.drop)
           IN  /\ res.embed_1 = full
               /\ Len(res.users_feature) = U
               /\ Len(res.bundles_feature) = B
               /\ \A i \in 1..U :
                     res.users_feature[i] =
                         [c \in 1..Len(embed_0[i]) |-> embed_0[i][c] + dropped[i][c]]
               /\ \A j \in 1..B :
                     res.bundles_feature[j] =
                         [c \in 1..Len(embed_0[U + j]) |-> embed_0[U + j][c] + dropped[U + j][c]]

\* a training-mode propagate over several non-empty blocks whose last block
\* holds more than one row, with a propagated term that is not zero
C2_Witness ==
    /\ InCall("propagate")
    /\ call.drop.training
    /\ model.num_users + model.num_bundles > DefaultSplitNum
    /\ \E i \in 1..model.num_users : call.outcome.value.embed_1[i][1] # 0
    /\ call.outcome.value.embed_1[model.num_users + model.num_bundles][1] # 0

\* C5: the loss forward(users, bundles) returns is lambda times the sum of
\* squares of the UserFeature rows gathered for the batch's user indices plus
\* that of the BundleFeature rows gathered for the batch's bundle indices.
C5_LossOverGatheredRows ==
    InCall("forward") =>
        LET pr == propagate(model, call.drop).value
            gathered_users ==
                [k \in 1..Len(call.users) |-> pr.users_feature[call.users[k][1] + 1]]
            gathered_bundles ==
                Flatten([k \in 1..Len(call.bundles) |->
                            [x \in 1..Len(call.bundles[k]) |->
                                pr.bundles_feature[call.bundles[k][x] + 1]]])
        IN  call.outcome.value.loss =
                model.embed_L2_norm * (SumSquares(gathered_users) + SumSquares(gathered_bundles))

\* C9: evaluate(propagate_result, users) returns, for each user index of the
\* batch, one score per bundle of the whole catalog in bundle order, the dot
\* product of that user's feature row with the bundle's feature row.
C9_EvaluateScoresWholeCatalog ==
    InCall("evaluate") =>
        /\ ~IsError(call.outcome)
        /\ LET pr == call.propagate_result
               scores == call.outcome.value
           IN  /\ Len(pr.bundles_feature) = model.num_bundles
               /\ Len(scores) = Len(call.users)
               /\ \A k \in 1..Len(call.users) :
                     /\ Len(scores[k]) = model.num_bundles
                     /\ \A j \in 1..model.num_bundles :
                           scores[k][j] =
                               Dot(pr.users_feature[call.users[k] + 1], pr.bundles_feature[j])

\* two users scored against a catalog of many bundles, not all scores equal
C9_Witness ==
    /\ InCall("evaluate")
    /\ Len(call.users) = 2
    /\ call.users[1] # call.users[2]
    /\ model.num_bundles >= DefaultSplitNum
    /\ \E j \in 1..model.num_bundles :
          call.outcome.value[1][j] # call.outcome.value[2][j]

\* C10: a propagate, predict, regularize, forward or evaluate call leaves the
\* embedding tables, the score-bound vector, the partitioned operator and the
\* counts as they were; only the optimizer's step between calls changes the
\* parameters, and nothing changes the operator or the counts.
C10_OnlyOptimizerChangesModel ==
    [][/\ model'.atom_graph = model.atom_graph
       /\ model'.num_users = model.num_users
       /\ model'.num_bundles = model.num_bundles
       /\ model'.num_items = model.num_items
       /\ H' = H
       /\ (model' # model => OptimizerStep)]_vars

\* a forward call has returned from a model with non-zero parameters
C10_Witness ==
    /\ InCall("forward")
    /\ ~IsError(call.outcome)
    /\ \E i \in 1..model.num_users : model.users_feature[i][1] # 0
    /\ call.outcome.value.loss # 0

====
